---- MODULE Spec2Model ----
(***************************************************************************)
(* Model of src/main.py: the Patient / PatientUpdate pydantic models, the  *)
(* patients.JSON file and the FastAPI handlers that read and rewrite it.   *)
(*                                                                         *)
(* A JSON value is modelled as a tuple: <<>> is null / None and <<v>> is   *)
(* the value v.  A JSON object (a Python dict) is a sequence of            *)
(* <<key, value>> pairs in insertion order, as json.load / json.dump and   *)
(* Python dicts keep it.  A flat object whose key order is irrelevant (one *)
(* patient record, one request body) is a function from its keys.          *)
(*                                                                         *)
(* Heights are held in 1/HUnit metres and weights in 1/WUnit kilograms so  *)
(* that the float fields are integers; a bmi is the exact fraction         *)
(* [num, den] in lowest terms.  Over the heights and weights used here the *)
(* float quotient falls on the same side of 18.5, 24.9, 25 and 29.9 as the *)
(* exact one.  Field values are of the field's type or null, so pydantic's *)
(* coercions do not arise.                                                 *)
(***************************************************************************)
EXTENDS Integers, Sequences, FiniteSets, TLC

VARIABLES patients_json, before, request, response, reads, deleted

vars == <<patients_json, before, request, response, reads, deleted>>

(***************************************************************************)
(* JSON values                                                             *)
(***************************************************************************)
None == <<>>
J(v) == <<v>>
V(j) == j[1]

HUnit == 100
WUnit == 10

(***************************************************************************)
(* Python dict / JSON object with insertion order                          *)
(***************************************************************************)
Keys(d) == {d[i][1] : i \in 1..Len(d)}
In(k, d) == k \in Keys(d)
Get(d, k) == d[CHOOSE i \in 1..Len(d) : d[i][1] = k][2]
Put(d, k, v) ==
    IF In(k, d)
    THEN [i \in 1..Len(d) |-> IF d[i][1] = k THEN <<k, v>> ELSE d[i]]
    ELSE Append(d, <<k, v>>)
Del(d, k) == SelectSeq(d, LAMBDA e : e[1] # k)
Values(d) == [i \in 1..Len(d) |-> d[i][2]]

(***************************************************************************)
(* class Patient                                                           *)
(***************************************************************************)
FieldNames == {"name", "city", "age", "height", "weight", "gender"}
PatientFields == FieldNames \cup {"id"}
ComputedFields == {"bmi", "bmi_category"}
Genders == {"Male", "Female", "Other"}

RECURSIVE GCD(_, _)
GCD(a, b) == IF b = 0 THEN a ELSE GCD(b, a % b)
Abs(a) == IF a < 0 THEN -a ELSE a

\* weight / height ** 2 as a fraction in lowest terms
Div(weight, height) ==
    LET n == weight * HUnit * HUnit
        d == WUnit * height * height
        g == GCD(Abs(n), d)
    IN  [num |-> n \div g, den |-> d \div g]

\* q < a/b, q >= a/b for a fraction q and integers a, b with b > 0
Lt(q, a, b) == q.num * b < a * q.den
Ge(q, a, b) == ~Lt(q, a, b)

bmi(self) ==
    IF V(self.weight) # 0 /\ V(self.height) # 0
    THEN J(Div(V(self.weight), V(self.height)))
    ELSE None

bmi_category_gapless(self) ==
    LET b == bmi(self) IN
    IF b = None THEN "Unknown"
    ELSE IF Lt(V(b), 185, 10) THEN "Underweight"
    ELSE IF Ge(V(b), 185, 10) /\ Lt(V(b), 250, 10) THEN "Normal weight"
    ELSE IF Ge(V(b), 25, 1) /\ Lt(V(b), 300, 10) THEN "Overweight"
    ELSE "Obesity"

bmi_category(self) ==
    LET b == bmi(self) IN
    IF b = None THEN "Unknown"
    ELSE IF Lt(V(b), 185, 10) THEN "Underweight"
    ELSE IF Ge(V(b), 185, 10) /\ Lt(V(b), 249, 10) THEN "Normal weight"
    ELSE IF Ge(V(b), 25, 1) /\ Lt(V(b), 299, 10) THEN "Overweight"
    ELSE "Obesity"

\* Patient(**raw) succeeds: every field is required and none may be null;
\* gender is a Literal.  Keys that are no field are ignored.
PatientValid(raw) ==
    /\ PatientFields \subseteq DOMAIN raw
    /\ \A f \in PatientFields : raw[f] # None
    /\ V(raw["gender"]) \in Genders

Patient(raw) == [f \in PatientFields |-> raw[f]]

model_dump_plain(self, exclude) ==
    [f \in PatientFields \ exclude |-> self[f]]

model_dump_keep_id(self, exclude) ==
    [f \in (PatientFields \cup ComputedFields) \ (exclude \ {"id"}) |->
        IF f = "bmi" THEN bmi(self)
        ELSE IF f = "bmi_category" THEN J(bmi_category(self))
        ELSE self[f]]

model_dump(self, exclude) ==
    [f \in (PatientFields \cup ComputedFields) \ exclude |->
        IF f = "bmi" THEN bmi(self)
        ELSE IF f = "bmi_category" THEN J(bmi_category(self))
        ELSE self[f]]

(***************************************************************************)
(* class PatientUpdate: six fields, each Optional[...] with no default, so *)
(* each is required in the body and may be null.  Keys that are no field   *)
(* are ignored.                                                            *)
(***************************************************************************)
PatientUpdateValid(body) ==
    /\ FieldNames \subseteq DOMAIN body
    /\ body["gender"] # None => V(body["gender"]) \in Genders

\* patient_update.model_dump(exclude_unset=True): the fields the body set
PatientUpdate_model_dump(body) ==
    [f \in FieldNames \cap DOMAIN body |-> body[f]]

(***************************************************************************)
(* Responses                                                               *)
(***************************************************************************)
Response(status, body) == [status |-> status, body |-> body]
HTTPException(status, detail) == Response(status, detail)
\* FastAPI rejects a body that fails the parameter's model before the handler runs
RequestValidationError == Response(422, "RequestValidationError")
\* an exception the handler does not catch
Unhandled(exception) == Response(500, exception)

Outcome(data, resp, n) == [data |-> data, response |-> resp, reads |-> n]

(***************************************************************************)
(* GET /view, GET /patient/{patient_id}                                    *)
(***************************************************************************)
read_view_result(file) == Outcome(file, Response(200, file), 1)

view_patient_result(file, patient_id) ==
    LET data == file IN
    IF In(patient_id, data)
    THEN Outcome(file, Response(200, Get(data, patient_id)), 1)
    ELSE Outcome(file, HTTPException(404, "Patient not found"), 1)

(***************************************************************************)
(* GET /sort                                                               *)
(***************************************************************************)
valid_fields == {"height", "weight", "bmi"}

\* x.get(sort_by)
SortKey(x, sort_by) == IF sort_by \in DOMAIN x THEN x[sort_by] ELSE None

\* a < b on two keys that are not None
KeyLt(a, b, sort_by) ==
    IF sort_by = "bmi"
    THEN V(a).num * V(b).den < V(b).num * V(a).den
    ELSE V(a) < V(b)

Reverse(s) == [i \in 1..Len(s) |-> s[Len(s) + 1 - i]]

\* x placed after every element of the sorted sequence s that is not greater
InsertSorted(s, x, sort_by) ==
    LET n == Cardinality({i \in 1..Len(s) :
                 ~KeyLt(SortKey(x, sort_by), SortKey(s[i], sort_by), sort_by)})
    IN  SubSeq(s, 1, n) \o <<x>> \o SubSeq(s, n + 1, Len(s))

RECURSIVE StableSort(_, _)
StableSort(s, sort_by) ==
    IF s = <<>> THEN <<>>
    ELSE InsertSorted(StableSort(SubSeq(s, 1, Len(s) - 1), sort_by), s[Len(s)], sort_by)

\* sorted(values, key=..., reverse=...): stable; reverse=True sorts the reversed
\* list and reverses the result.  Comparing None raises TypeError.
sorted(values, sort_by, reverse) ==
    IF Len(values) >= 2 /\ \E i \in 1..Len(values) : SortKey(values[i], sort_by) = None
    THEN [raised |-> TRUE, list |-> <<>>]
    ELSE [raised |-> FALSE,
          list |-> IF reverse THEN Reverse(StableSort(Reverse(values), sort_by))
                   ELSE StableSort(values, sort_by)]

sort_patients_result(file, sort_by, order) ==
    IF sort_by \notin valid_fields
    THEN Outcome(file, HTTPException(400, "Invalid sort_by field"), 0)
    ELSE IF order \notin {"asc", "desc"}
    THEN Outcome(file, HTTPException(400, "Invalid order"), 0)
    ELSE LET data == file
             sort_order == (order = "desc")
             sorted_data == sorted(Values(data), sort_by, sort_order)
         IN  IF sorted_data.raised
             THEN Outcome(file, Unhandled("TypeError"), 1)
             ELSE Outcome(file, Response(200, sorted_data.list), 1)

(***************************************************************************)
(* POST /create                                                            *)
(***************************************************************************)
create_patiet_overwrite(file, body) ==
    IF ~PatientValid(body)
    THEN Outcome(file, RequestValidationError, 0)
    ELSE LET patient == Patient(body)
             data == file
         IN  Outcome(Put(data, V(patient.id), model_dump(patient, {"id"})),
                     Response(201, "Patient created successfully"), 1)

create_patiet_result(file, body) ==
    IF ~PatientValid(body)
    THEN Outcome(file, RequestValidationError, 0)
    ELSE LET patient == Patient(body)
             data == file
         IN  IF In(V(patient.id), data)
             THEN Outcome(file, HTTPException(400, "Patient ID already exists"), 1)
             ELSE Outcome(Put(data, V(patient.id), model_dump(patient, {"id"})),
                          Response(201, "Patient created successfully"), 1)

(***************************************************************************)
(* PUT /update/{patient_id}                                                *)
(***************************************************************************)
\* existing_patient after the loop over updated_data and the assignment of 'id'
MergeKeepCity(existing_patient, updated_data, patient_id) ==
    [k \in DOMAIN existing_patient \cup DOMAIN updated_data \cup {"id"} |->
        IF k = "id" THEN J(patient_id)
        ELSE IF k \in DOMAIN updated_data /\ ~(k = "city" /\ k \in DOMAIN existing_patient)
        THEN updated_data[k]
        ELSE existing_patient[k]]

Merge(existing_patient, updated_data, patient_id) ==
    [k \in DOMAIN existing_patient \cup DOMAIN updated_data \cup {"id"} |->
        IF k = "id" THEN J(patient_id)
        ELSE IF k \in DOMAIN updated_data THEN updated_data[k]
        ELSE existing_patient[k]]

\* a handler that writes the merged dict back before it validates it
update_patient_save_first(file, patient_id, body) ==
    IF ~PatientUpdateValid(body)
    THEN Outcome(file, RequestValidationError, 0)
    ELSE LET data == file IN
         IF ~In(patient_id, data)
         THEN Outcome(file, HTTPException(404, "Patient not found"), 1)
         ELSE LET merged == Merge(Get(data, patient_id),
                                  PatientUpdate_model_dump(body), patient_id)
              IN  IF ~PatientValid(merged)
                  THEN Outcome(Put(data, patient_id, merged),
                               Unhandled("ValidationError"), 1)
                  ELSE Outcome(Put(data, patient_id,
                                   model_dump(Patient(merged), {"id"})),
                               Response(200, "Patient updated successfully"), 1)

\* a handler that stores the merged dict without building the Patient again
update_patient_stale(file, patient_id, body) ==
    IF ~PatientUpdateValid(body)
    THEN Outcome(file, RequestValidationError, 0)
    ELSE LET data == file IN
         IF ~In(patient_id, data)
         THEN Outcome(file, HTTPException(404, "Patient not found"), 1)
         ELSE LET merged == Merge(Get(data, patient_id),
                                  PatientUpdate_model_dump(body), patient_id)
              IN  IF ~PatientValid(merged)
                  THEN Outcome(file, Unhandled("ValidationError"), 1)
                  ELSE Outcome(Put(data, patient_id,
                                   [k \in DOMAIN merged \ {"id"} |-> merged[k]]),
                               Response(200, "Patient updated successfully"), 1)

update_patient_result(file, patient_id, body) ==
    IF ~PatientUpdateValid(body)
    THEN Outcome(file, RequestValidationError, 0)
    ELSE LET data == file IN
         IF ~In(patient_id, data)
         THEN Outcome(file, HTTPException(404, "Patient not found"), 1)
         ELSE LET existing_patient == Get(data, patient_id)
                  updated_data == PatientUpdate_model_dump(body)
                  merged == Merge(existing_patient, updated_data, patient_id)
              IN  IF ~PatientValid(merged)
                  THEN Outcome(file, Unhandled("ValidationError"), 1)
                  ELSE Outcome(Put(data, patient_id,
                                   model_dump(Patient(merged), {"id"})),
                               Response(200, "Patient updated successfully"), 1)

(***************************************************************************)
(* DELETE /delete/{patient_id}                                             *)
(***************************************************************************)
delete_patient_all(file, patient_id) ==
    LET data == file IN
    IF ~In(patient_id, data)
    THEN Outcome(file, HTTPException(404, "Patient not found"), 1)
    ELSE Outcome(<<>>, Response(200, "Patient deleted successfully"), 1)

delete_patient_result(file, patient_id) ==
    LET data == file IN
    IF ~In(patient_id, data)
    THEN Outcome(file, HTTPException(404, "Patient not found"), 1)
    ELSE Outcome(Del(data, patient_id),
                 Response(200, "Patient deleted successfully"), 1)

(***************************************************************************)
(* Inputs.  Old and New give every primary field two values; a patient is  *)
(* Old with the fields of one change set taken from New.  New's height is  *)
(* zero, so patients without a bmi occur.                                  *)
(***************************************************************************)
Ids == {"P001", "P002"}

Old == [name |-> "Ann", city |-> "Pune", age |-> 30,
        height |-> 175, weight |-> 700, gender |-> "Female"]
New == [name |-> "Bob", city |-> "Delhi", age |-> 31,
        height |-> 0, weight |-> 1000, gender |-> "Male"]

Alt(S) == [f \in FieldNames |-> J(IF f \in S THEN New[f] ELSE Old[f])]
ChangeSets == {{}} \cup {{f} : f \in FieldNames} \cup {FieldNames}
ValidRecords == {Alt(S) : S \in ChangeSets}

Restrict(f, S) == [k \in S |-> f[k]]
With(f, k, v) == [x \in DOMAIN f \cup {k} |-> IF x = k THEN v ELSE f[x]]

\* bodies of POST /create: valid patients, a gender outside the Literal, a null
\* field, a missing field
CreateBodies ==
    {With(r, "id", J(i)) : r \in ValidRecords, i \in Ids}
    \cup {With([Alt({}) EXCEPT !["gender"] = J("Unknown")], "id", J(i)) : i \in Ids}
    \cup {With([Alt({}) EXCEPT !["weight"] = None], "id", J(i)) : i \in Ids}
    \cup {With(Restrict(Alt({}), FieldNames \ {"name"}), "id", J(i)) : i \in Ids}

\* bodies of PUT /update: all six fields with valid values, a proper subset of the
\* fields, a null field, a gender outside the Literal, an extra "id" key
UpdateBodies ==
    ValidRecords
    \cup {Restrict(Alt(FieldNames), S) : S \in {{}, {"weight"}, {"height", "weight"}}}
    \cup {[Alt({}) EXCEPT !["weight"] = None], [Alt(FieldNames) EXCEPT !["name"] = None]}
    \cup {[Alt({}) EXCEPT !["gender"] = J("Unknown")]}
    \cup {With(Alt({"weight"}), "id", J("P002"))}

SortFields == valid_fields \cup {"name"}
Orders == {"asc", "desc", "up"}

\* patients.JSON as found at start: records of the six primary fields
SeedRecords == {Alt({}), Alt({"height"})}
Seeds ==
    {<<>>}
    \cup {<< <<i, r>> >> : i \in Ids, r \in SeedRecords}
    \cup {<< <<i, r>>, <<j, q>> >> : i \in Ids, j \in Ids, r \in SeedRecords, q \in SeedRecords}

(***************************************************************************)
(* State machine: one request at a time, each handled to completion.       *)
(*   patients_json  the content of patients.JSON                           *)
(*   before         its content when the last request arrived              *)
(*   request        the last request                                       *)
(*   response       the response to it                                     *)
(*   reads          the number of get_patient_data() calls it made         *)
(*   deleted        the ids deleted and not created again since            *)
(***************************************************************************)
get_patient_data == patients_json

save_patient_data(data) == patients_json' = data

Reply(out) ==
    /\ before' = patients_json
    /\ response' = out.response
    /\ reads' = out.reads
    /\ save_patient_data(out.data)
    /\ deleted' = (deleted \cup (Keys(patients_json) \ Keys(out.data))) \ Keys(out.data)

Init ==
    /\ patients_json \in {d \in Seeds : Cardinality(Keys(d)) = Len(d)}
    /\ before = patients_json
    /\ request = [op |-> "none"]
    /\ response = Response(0, "none")
    /\ reads = 0
    /\ deleted = {}

read_view ==
    /\ request' = [op |-> "read_view"]
    /\ Reply(read_view_result(get_patient_data))

view_patient(patient_id) ==
    /\ request' = [op |-> "view_patient", patient_id |-> patient_id]
    /\ Reply(view_patient_result(get_patient_data, patient_id))

sort_patients(sort_by, order) ==
    /\ request' = [op |-> "sort_patients", sort_by |-> sort_by, order |-> order]
    /\ Reply(sort_patients_result(get_patient_data, sort_by, order))

create_patiet(body) ==
    /\ request' = [op |-> "create_patiet", body |-> body]
    /\ Reply(create_patiet_result(get_patient_data, body))

update_patient(patient_id, body) ==
    /\ request' = [op |-> "update_patient", patient_id |-> patient_id, body |-> body]
    /\ Reply(update_patient_result(get_patient_data, patient_id, body))

delete_patient(patient_id) ==
    /\ request' = [op |-> "delete_patient", patient_id |-> patient_id]
    /\ Reply(delete_patient_result(get_patient_data, patient_id))

Next ==
    \/ read_view
    \/ \E patient_id \in Ids : view_patient(patient_id)
    \/ \E sort_by \in SortFields, order \in Orders : sort_patients(sort_by, order)
    \/ \E body \in CreateBodies : create_patiet(body)
    \/ \E patient_id \in Ids, body \in UpdateBodies : update_patient(patient_id, body)
    \/ \E patient_id \in Ids : delete_patient(patient_id)

Spec == Init /\ [][Next]_vars

(***************************************************************************)
(* The Patient model on its own: a raw record is validated and dumped with *)
(* its computed fields.  Heights and weights range over BmiHeights and     *)
(* BmiWeights; the store plays no part.                                    *)
(***************************************************************************)
MaxWeight == 1250
BmiHeights == {0, 50, 100, 175, 180, 200}
BmiWeights == {-WUnit} \cup 0..MaxWeight

BmiInputs ==
    {With([Alt({}) EXCEPT !["height"] = J(h), !["weight"] = J(w)], "id", J("P001")) :
        h \in BmiHeights, w \in BmiWeights}

InitBmi ==
    /\ patients_json = <<>>
    /\ before = <<>>
    /\ request \in {[op |-> "materialize", body |-> raw] : raw \in BmiInputs}
    /\ response = Response(0, "none")
    /\ reads = 0
    /\ deleted = {}

\* Patient(**raw).model_dump()
materialize ==
    /\ request.op = "materialize"
    /\ response.status = 0
    /\ PatientValid(request.body)
    /\ response' = Response(200, model_dump(Patient(request.body), {}))
    /\ UNCHANGED <<patients_json, before, request, reads, deleted>>

NextBmi == materialize

SpecBmi == InitBmi /\ [][NextBmi]_vars

(***************************************************************************)
(* Properties.  Each is stated on the last request, the store it found     *)
(* (before), the response and the store it left (patients_json), without   *)
(* the operators that model the handlers.                                  *)
(***************************************************************************)
Op == request.op
Ok == response.status \in {200, 201}
NotFound == response = Response(404, "Patient not found")
StoreUnchanged == patients_json = before
Records(d) == {d[i][2] : i \in 1..Len(d)}
Primary(rec) == [f \in FieldNames |-> rec[f]]
HasDerived(rec) == ComputedFields \subseteq DOMAIN rec

\* b is weight / height^2, or absent when either is zero
BmiIs(b, height, weight) ==
    IF height = 0 \/ weight = 0 THEN b = None
    ELSE /\ b # None
         /\ V(b).den > 0
         /\ V(b).num * (height * height)
                = V(b).den * (weight * ((HUnit * HUnit) \div WUnit))

\* c is the category of b by the five-way rule
CategoryIs(b, c) ==
    IF b = None THEN c = "Unknown"
    ELSE LET q == V(b)
             below185 == q.num * 10 < 185 * q.den
             below249 == q.num * 10 < 249 * q.den
             below25 == q.num < 25 * q.den
             below299 == q.num * 10 < 299 * q.den
         IN  /\ below185 => c = "Underweight"
             /\ (~below185 /\ below249) => c = "Normal weight"
             /\ (~below249 /\ below25) => c = "Obesity"
             /\ (~below25 /\ below299) => c = "Overweight"
             /\ ~below299 => c = "Obesity"

DerivedFresh(rec) ==
    /\ HasDerived(rec)
    /\ BmiIs(rec["bmi"], V(rec["height"]), V(rec["weight"]))
    /\ rec["bmi_category"] # None
    /\ CategoryIs(rec["bmi"], V(rec["bmi_category"]))

\* the id a create or an update addresses
TargetId == IF Op = "create_patiet" THEN V(request.body["id"]) ELSE request.patient_id

\* every entry of d other than id's is in e, unchanged and in the same order
Without(d, id) == SelectSeq(d, LAMBDA entry : entry[1] # id)
OthersKept(d, e, id) == Without(d, id) = Without(e, id)

\* a body that passes the request validation of PUT /update: the six fields are
\* all supplied and gender, when not null, is one of the three genders
WellFormedUpdate(body) ==
    /\ FieldNames \subseteq DOMAIN body
    /\ body["gender"] = None \/ V(body["gender"]) \in Genders

\* a body that is a valid patient: every field supplied and not null, gender valid
ValidPatient(body) ==
    /\ PatientFields \subseteq DOMAIN body
    /\ \A f \in PatientFields : body[f] # None
    /\ V(body["gender"]) \in Genders

(***************************************************************************)
(* C1                                                                      *)
(***************************************************************************)
\* C1 as claimed: no record held by the store contains a bmi or a bmi_category
\* field.
C1_NoDerivedFieldStored ==
    \A rec \in Records(patients_json) : DOMAIN rec \cap ComputedFields = {}

\* C1 as amended: create and update strip the id only.  The record a successful
\* create or update hands to the store holds exactly the six primary fields and
\* bmi and bmi_category, computed from the record's height and weight.
C1_WrittenRecordHoldsDerived ==
    (Op \in {"create_patiet", "update_patient"} /\ Ok) =>
        /\ In(TargetId, patients_json)
        /\ DOMAIN Get(patients_json, TargetId) = FieldNames \cup ComputedFields
        /\ DerivedFresh(Get(patients_json, TargetId))

C1_Witness ==
    /\ Op = "create_patiet"
    /\ response.status = 201
    /\ Get(patients_json, TargetId)["bmi"] # None

(***************************************************************************)
(* C2                                                                      *)
(***************************************************************************)
\* a supplied field is null, or the supplied gender is outside the three genders
BodyFailsValidation(body) ==
    \E f \in DOMAIN body \cap FieldNames :
        \/ body[f] = None
        \/ f = "gender" /\ V(body[f]) \notin Genders

ValidationFailure ==
    \/ response = Response(422, "RequestValidationError")
    \/ response = Response(500, "ValidationError")

\* C2: an update of an existing id whose body makes the merged record invalid ends
\* in a validation error and the store is exactly the store from before the call.
C2_FailedUpdateLeavesStore ==
    (Op = "update_patient" /\ In(request.patient_id, before)
        /\ BodyFailsValidation(request.body)) =>
        (ValidationFailure /\ StoreUnchanged)

\* the body passed request validation and the merged record was rejected
C2_Witness ==
    /\ Op = "update_patient"
    /\ In(request.patient_id, before)
    /\ BodyFailsValidation(request.body)
    /\ response = Response(500, "ValidationError")
    /\ HasDerived(Get(before, request.patient_id))

C4_EmptyUpdateAccepted ==
    (Op = "update_patient" /\ In(request.patient_id, before)
        /\ DOMAIN request.body = {}) =>
        /\ Ok
        /\ In(request.patient_id, patients_json)
        /\ Primary(Get(patients_json, request.patient_id))
               = Primary(Get(before, request.patient_id))
        /\ DerivedFresh(Get(patients_json, request.patient_id))

(***************************************************************************)
(* C5                                                                      *)
(***************************************************************************)
Conflict == response = Response(400, "Patient ID already exists")

\* exactly one entry, under id, is added and every other entry is unchanged
AddsOneEntry(id) ==
    /\ ~In(id, before)
    /\ Len(patients_json) = Len(before) + 1
    /\ SubSeq(patients_json, 1, Len(before)) = before
    /\ patients_json[Len(patients_json)][1] = id
    /\ Primary(patients_json[Len(patients_json)][2]) = Primary(request.body)

\* C5 as claimed: a create whose id exists is rejected as a conflict and leaves the
\* store unchanged; a create of a valid patient with a new id adds one entry.
C5_CreateConflictOrAdd ==
    Op = "create_patiet" =>
        IF In(TargetId, before) THEN Conflict /\ StoreUnchanged
        ELSE ValidPatient(request.body) => (Ok /\ AddsOneEntry(TargetId))

\* C5 as amended: the conflict is reported for a valid patient; a body that is no
\* valid patient is rejected by request validation before the id is looked up,
\* whether the id exists or not, and the store is unchanged.
C5_ValidCreateConflictOrAdd ==
    Op = "create_patiet" =>
        IF ~ValidPatient(request.body)
        THEN response = Response(422, "RequestValidationError")
                 /\ StoreUnchanged /\ reads = 0
        ELSE IF In(TargetId, before) THEN Conflict /\ StoreUnchanged
        ELSE Ok /\ AddsOneEntry(TargetId)

\* a valid patient refused because its id is taken by a different record
C5_Witness ==
    /\ Op = "create_patiet"
    /\ ValidPatient(request.body)
    /\ Conflict
    /\ Primary(Get(before, TargetId)) # Primary(request.body)

(***************************************************************************)
(* C6                                                                      *)
(***************************************************************************)
\* C6 as claimed: lookup of a present id returns the patient with bmi and
\* bmi_category computed from the record's current height and weight; lookup of an
\* absent id returns not-found.
C6_LookupMaterializes ==
    Op = "view_patient" =>
        IF In(request.patient_id, before)
        THEN /\ response.status = 200
             /\ Primary(response.body) = Primary(Get(patients_json, request.patient_id))
             /\ DerivedFresh(response.body)
        ELSE NotFound

\* C6 as amended: lookup of a present id returns the record exactly as the store
\* holds it and derives nothing.  A record written by create or update carries bmi
\* and bmi_category computed from its current height and weight; a record the store
\* held from the start without derived fields is returned without them.  Lookup of
\* an absent id returns not-found.  The store is unchanged.
C6_LookupReturnsStoredRecord ==
    Op = "view_patient" =>
        /\ StoreUnchanged
        /\ IF In(request.patient_id, before)
           THEN /\ response.status = 200
                /\ response.body = Get(patients_json, request.patient_id)
                /\ \/ DerivedFresh(response.body)
                   \/ response.body \in SeedRecords
           ELSE NotFound

\* a lookup of a record an update wrote, whose bmi is present
C6_Witness ==
    /\ Op = "view_patient"
    /\ response.status = 200
    /\ HasDerived(response.body)
    /\ response.body["bmi"] # None
    /\ V(response.body["weight"]) = New["weight"]

(***************************************************************************)
(* C7                                                                      *)
(***************************************************************************)
\* the sort key of a returned patient, and the order two keys are in
KeyOf(rec) == rec[request.sort_by]
KeyLess(a, b) ==
    IF request.sort_by = "bmi"
    THEN V(a).num * V(b).den < V(b).num * V(a).den
    ELSE V(a) < V(b)

InOrder(list) ==
    \A i \in 1..Len(list), j \in 1..Len(list) :
        i < j => /\ KeyOf(list[i]) # None
                 /\ KeyOf(list[j]) # None
                 /\ IF request.order = "asc"
                    THEN ~KeyLess(KeyOf(list[j]), KeyOf(list[i]))
                    ELSE ~KeyLess(KeyOf(list[i]), KeyOf(list[j]))

\* list holds each record of d exactly once
EachOnce(list, d) ==
    /\ Len(list) = Len(d)
    /\ \E p \in Permutations(1..Len(d)) : \A i \in 1..Len(d) : list[i] = d[p[i]][2]

\* C7 as claimed, for a store whose records all carry their derived fields: a sort
\* by height, weight or bmi, asc or desc, returns each stored patient exactly once,
\* with its derived fields, in the order asked for; any other field or order is a
\* bad request, answered before the store is read.
C7_SortReturnsOrdered ==
    (Op = "sort_patients" /\ \A rec \in Records(before) : DerivedFresh(rec)) =>
        IF request.sort_by \in {"height", "weight", "bmi"}
               /\ request.order \in {"asc", "desc"}
        THEN /\ response.status = 200
             /\ EachOnce(response.body, before)
             /\ \A i \in 1..Len(response.body) : DerivedFresh(response.body[i])
             /\ InOrder(response.body)
        ELSE response.status = 400 /\ reads = 0

(***************************************************************************)
(* C9                                                                      *)
(***************************************************************************)
\* delete itself: not-found and no change for an absent id, else exactly that id
\* is removed
DeleteContract ==
    Op = "delete_patient" =>
        IF ~In(request.patient_id, before) THEN NotFound /\ StoreUnchanged
        ELSE /\ Ok
             /\ patients_json = Without(before, request.patient_id)
             /\ Len(patients_json) = Len(before) - 1

\* an id that was deleted is absent from the store until it is created again
DeletedStaysAbsent ==
    /\ \A id \in deleted : ~In(id, patients_json)
    /\ Op # "create_patiet" => Keys(patients_json) \subseteq Keys(before)

\* the request addresses an id that an earlier request deleted
DeletedEarlier == request.patient_id \in deleted /\ ~In(request.patient_id, before)

\* C9 as claimed: the delete contract, and every lookup, update or delete of an id
\* that was deleted returns not-found until the id is created again.  The updates
\* are taken with a body that supplies all six fields, so that a refusal of a
\* partial body (C4) is not what decides it.
C9_DeleteThenNotFound ==
    /\ DeleteContract
    /\ DeletedStaysAbsent
    /\ (Op \in {"view_patient", "update_patient", "delete_patient"}
           /\ DeletedEarlier
           /\ (Op = "update_patient" => FieldNames \subseteq DOMAIN request.body))
          => NotFound

\* C9 as amended: an update of a deleted id returns not-found when its body passes
\* request validation; a body that does not is rejected by request validation
\* before the id is looked up.  Either way the store is unchanged.
C9_DeleteThenNotFoundForWellFormed ==
    /\ DeleteContract
    /\ DeletedStaysAbsent
    /\ (Op \in {"view_patient", "delete_patient"} /\ DeletedEarlier)
          => (NotFound /\ StoreUnchanged)
    /\ (Op = "update_patient" /\ DeletedEarlier) =>
           /\ StoreUnchanged
           /\ IF WellFormedUpdate(request.body) THEN NotFound
              ELSE response = Response(422, "RequestValidationError") /\ reads = 0

\* an update of an id that was deleted while another entry stayed in the store
C9_Witness ==
    /\ Op = "update_patient"
    /\ DeletedEarlier
    /\ NotFound
    /\ Len(before) = 1

(***************************************************************************)
(* C10                                                                     *)
(***************************************************************************)
\* C10: every record of the store has the six primary fields, none null, a gender
\* among the three genders, and no id field.
C10_StoredRecordsValid ==
    \A rec \in Records(patients_json) :
        /\ FieldNames \subseteq DOMAIN rec
        /\ \A f \in FieldNames : rec[f] # None
        /\ V(rec["gender"]) \in Genders
        /\ "id" \notin DOMAIN rec

\* a store of two records, after an update was accepted and after one was rejected
C10_Witness ==
    /\ Op = "update_patient"
    /\ Len(patients_json) = 2
    /\ response.status \in {200, 500}
    /\ "id" \in DOMAIN request.body \/ BodyFailsValidation(request.body)

(***************************************************************************)
(* C8, checked under SpecBmi                                               *)
(***************************************************************************)
\* C8: bmi is absent when height or weight is zero and weight / height^2 otherwise;
\* bmi_category is Unknown, Underweight, Normal weight, Overweight or Obesity by the
\* five-way rule, Obesity covering 24.9 <= bmi < 25 and bmi >= 29.9.
C8_BmiAndCategory ==
    (Op = "materialize" /\ response.status = 200) =>
        /\ BmiIs(response.body["bmi"], V(request.body["height"]),
                 V(request.body["weight"]))
        /\ response.body["bmi_category"] # None
        /\ CategoryIs(response.body["bmi"], V(response.body["bmi_category"]))

\* a bmi in the gap between 24.9 and 25
C8_Witness ==
    /\ Op = "materialize"
    /\ response.status = 200
    /\ response.body["bmi"] # None
    /\ V(response.body["bmi"]).num * 10 >= 249 * V(response.body["bmi"]).den
    /\ V(response.body["bmi"]).num < 25 * V(response.body["bmi"]).den
    /\ response.body["bmi_category"] = J("Obesity")

====
